---- MODULE Spec2Model ----
(***************************************************************************)
(* A model of deal's static verifier (deal/_solver): the Theorem           *)
(* orchestrator of _theorem.py with its memoized chain                     *)
(* arguments -> context -> contracts -> constraint -> solver, the verdict  *)
(* set by prove() and cleared by reset(), and the sort mapper of           *)
(* _annotations.py.                                                        *)
(*                                                                         *)
(* Optional values (Python None / a value) are sequences of length 0 or 1. *)
(* Formulas are literals over uninterpreted atoms, an atom per symbolic    *)
(* value, so that satisfiability of the constraint is computed, not        *)
(* guessed.                                                                *)
(***************************************************************************)
EXTENDS Integers, Sequences, FiniteSets, TLC

\* ---------------------------------------------------------------- bounds
MaxArgs == 2      \* positional parameters of a function description
MaxBody == 2      \* statements in a function body
MaxCalls == 3     \* prove() and reset() calls made on a Theorem
MaxTwoCalls == 4  \* calls made on two Theorem instances together
MaxNest == 2      \* depth of parametrized annotations inside one another
MaxDecorators == 3  \* decorators stacked on one function
MaxPres == 2      \* pre validators attached to one function
MaxPosts == 1     \* post validators, and ensure validators, attached
MaxRaises == 2    \* raises validators attached
MaxItems == 2     \* items a generator produces
MaxAttach == 3    \* contracts attached to one function
MaxMarkers == 2   \* markers given to one HasPatcher

\* ------------------------------------------------------- optional values
None == << >>
Some(v) == << v >>
Get(o) == o[1]

Min(S) == CHOOSE m \in S : \A k \in S : m <= k

\* ------------------------------------------------ _annotations.py: sorts
\* annotation nodes of the front-end (astroid)
NameNode(n) == [kind |-> "Name", name |-> n]
ConstNode(v, isStr) == [kind |-> "Const", value |-> v, str |-> isStr]
IndexNode(v) == [kind |-> "Index", value |-> v]
\* defs: the modules of the definitions infer() finds for the outer name
SubscriptNode(defs, tname, slice) ==
    [kind |-> "Subscript", defs |-> defs, tname |-> tname, slice |-> slice]
TupleNode(n) == [kind |-> "Tuple", size |-> n]

SimpleSort(s) == [s |-> s]
GenericSort(s, sub) == [s |-> s, of |-> sub]

SIMPLE_SORTS(name) ==
    CASE name = "bool"  -> Some(SimpleSort("Bool"))
      [] name = "int"   -> Some(SimpleSort("Int"))
      [] name = "float" -> Some(SimpleSort("Float"))
      [] name = "str"   -> Some(SimpleSort("String"))
      [] OTHER          -> None

GENERIC_SORTS(name) ==
    CASE name = "list" -> Some("Seq")
      [] name = "set"  -> Some("Set")
      [] OTHER         -> None

\* str.lower() on the type names the model uses
lower(name) ==
    CASE name = "List" -> "list"
      [] name = "Set"  -> "set"
      [] name = "Dict" -> "dict"
      [] OTHER         -> name

sort_from_name(node) == SIMPLE_SORTS(node.name)

sort_from_str_unmapped(node) == None

sort_from_str(node) == SIMPLE_SORTS(node.value)

RECURSIVE ann2sort(_)
sort_from_getattr_any_module(node) ==
    IF Len(node.defs) # 1 THEN None
    ELSE LET sort == GENERIC_SORTS(lower(node.tname)) IN
         IF sort = None THEN None
         ELSE LET subsort == ann2sort(node.slice) IN
              IF subsort = None THEN None
              ELSE Some(GenericSort(Get(sort), Get(subsort)))

\* defs is what infer(node.value) finds, each definition by the module
\* get_full_name gives for it; tname is what get_name(node.value) gives
sort_from_getattr(node) ==
    IF Len(node.defs) # 1 THEN None
    ELSE IF node.defs[1] # "typing" /\ node.defs[1] # "builtins" THEN None
    ELSE LET sort == GENERIC_SORTS(lower(node.tname)) IN
         IF sort = None THEN None
         ELSE LET subsort == ann2sort(node.slice) IN
              IF subsort = None THEN None
              ELSE Some(GenericSort(Get(sort), Get(subsort)))

ann2sort(node) ==
    CASE node.kind = "Index" -> ann2sort(node.value)
      [] node.kind = "Name" -> sort_from_name(node)
      [] node.kind = "Const" /\ node.str -> sort_from_str(node)
      [] node.kind = "Subscript" -> sort_from_getattr(node)
      [] OTHER -> None

\* ------------------------------------------------------ exceptions raised
UnsupportedError(msg) == [cls |-> "UnsupportedError", msg |-> msg]
ProveError(msg) == [cls |-> "ProveError", msg |-> msg]
RuntimeError(msg) == [cls |-> "RuntimeError", msg |-> msg]
NameNotFound(msg) == [cls |-> "NameNotFound", msg |-> msg]

\* ------------------------------------------- symbolic values and formulas
ParamNames == << "x", "y", "z", "w" >>
Names == {"x", "y", "z", "w", "k", "result"}

ConstTerm(n) == [k |-> "const", n |-> n]
LitTerm(n) == [k |-> "lit", n |-> n]
Unbound == [k |-> "unbound", n |-> ""]

\* a literal: the predicate applied to a symbolic value, or its negation
Lit(term, pos) == [atom |-> term, pos |-> pos]

\* the atoms a constraint of the model can mention
Atoms == {ConstTerm("x"), LitTerm("0")}
Assignments == [Atoms -> BOOLEAN]

holds(lit, v) == v[lit.atom] = lit.pos
conj(lits, v) == \A i \in 1..Len(lits) : holds(lits[i], v)

\* ------------------------------------------------------- Symbolic Context
\* Context.make_empty(): empty scope, no given, no expected
make_empty == [scope |-> [n \in Names |-> Unbound],
               given |-> << >>, expected |-> << >>]

scope_set(ctx, name, value) == [ctx EXCEPT !.scope[name] = value]

\* scope.get: the value bound to the name, or the name-not-found condition
scope_get(ctx, name) ==
    IF ctx.scope[name] = Unbound
    THEN [exc |-> Some(NameNotFound(name)), val |-> Unbound]
    ELSE [exc |-> None, val |-> ctx.scope[name]]

\* ------------------------------------------ Symbolic Statement Evaluator
Stmt(kind, name) == [kind |-> kind, name |-> name]

\* one statement, mutating the context; exc is the condition it raises
eval_one(stmt, ctx) ==
    CASE stmt.kind = "Assign" ->
            [ctx |-> scope_set(ctx, stmt.name, LitTerm("0")), exc |-> None]
      [] stmt.kind = "While" ->
            [ctx |-> ctx, exc |-> Some(UnsupportedError("unsupported statement"))]
      [] OTHER ->
            LET r == scope_get(ctx, stmt.name) IN
            IF r.exc # None THEN [ctx |-> ctx, exc |-> r.exc]
            ELSE CASE stmt.kind = "Assert" ->
                        [ctx |-> [ctx EXCEPT !.expected = Append(@, Lit(r.val, TRUE))],
                         exc |-> None]
                   [] stmt.kind = "If" ->
                        [ctx |-> [ctx EXCEPT !.given = Append(@, Lit(r.val, TRUE))],
                         exc |-> None]
                   [] stmt.kind = "Return" ->
                        [ctx |-> scope_set(ctx, "result", r.val), exc |-> None]

RECURSIVE eval_from(_, _, _)
eval_from(body, i, ctx) ==
    IF i > Len(body) THEN [ctx |-> ctx, exc |-> None]
    ELSE LET r == eval_one(body[i], ctx) IN
         IF r.exc # None THEN r ELSE eval_from(body, i + 1, r.ctx)

\* eval_stmt(node, ctx): walks the body in order; the context keeps what
\* the statements before a raising one did to it
eval_stmt(func, ctx) == eval_from(func.body, 1, ctx)

\* ------------------------------------------------------ Contract Evaluator
Decorator(category, name) == [category |-> category, name |-> name]

RECURSIVE eval_contracts_from(_, _, _, _)
eval_contracts_from(decorators, i, ctx, goals) ==
    IF i > Len(decorators) THEN [exc |-> None, val |-> goals]
    ELSE LET d == decorators[i] IN
         IF d.category \notin {"pre", "post"}
         THEN eval_contracts_from(decorators, i + 1, ctx, goals)
         ELSE LET r == scope_get(ctx, d.name) IN
              IF r.exc # None THEN [exc |-> r.exc, val |-> goals]
              ELSE eval_contracts_from(decorators, i + 1, ctx,
                      [goals EXCEPT ![d.category] = Append(@, Lit(r.val, TRUE))])

\* eval_contracts(decorators, ctx): one goal per category, each the
\* conjunction of the declared predicates evaluated against ctx.scope
eval_contracts(decorators, ctx) ==
    eval_contracts_from(decorators, 1, ctx, [pre |-> << >>, post |-> << >>])

\* ------------------------------------------------------- _theorem.py
\* Theorem.__init__: only _func is set; conclusion, error and example are
\* the class defaults and nothing is memoized
Theorem(node) ==
    [func |-> node,
     conclusion |-> None, error |-> None, example |-> None,
     arguments |-> None, context |-> None, contracts |-> None,
     constraint |-> None, solver |-> None]

\* what a memoized property returns: the theorem after the access, the
\* condition raised (if any), and the trace of the computations done
Event(ev, ctx) == [ev |-> ev, ctx |-> ctx]
Ok(t, tr) == [t |-> t, exc |-> None, tr |-> tr]
Raise(t, e, tr) == [t |-> t, exc |-> e, tr |-> tr]

\* the parameters the loop of Theorem.arguments stops at
unsupported_args(func, n) ==
    {i \in 1..n : \/ func.annotations[i] = None
                  \/ ann2sort(Get(func.annotations[i])) = None}

\* the condition raised for the first of them
arguments_error(func, bad) ==
    IF func.annotations[Min(bad)] = None
    THEN UnsupportedError("missed annotation for")
    ELSE UnsupportedError("unsupported annotation type")

arguments_result(func, n, bad) ==
    IF bad # {}
    THEN [exc |-> Some(arguments_error(func, bad)), val |-> << >>]
    ELSE [exc |-> None,
          val |-> [i \in 1..n |->
                     [name |-> func.args[i],
                      sort |-> Get(ann2sort(Get(func.annotations[i]))),
                      value |-> ConstTerm(func.args[i])]]]

\* the length of zip(args.args, args.annotations)
zip_len(func) == Min({Len(func.args), Len(func.annotations)})

\* the loop of Theorem.arguments over zip(args.args, args.annotations)
arguments_loop(func) ==
    arguments_result(func, zip_len(func), unsupported_args(func, zip_len(func)))

arguments_memo(t, tr, r) ==
    IF r.exc # None THEN Raise(t, r.exc, tr)
    ELSE Ok([t EXCEPT !.arguments = Some(r.val)],
            Append(tr, Event("arguments", None)))

\* Theorem.arguments (cached_property)
arguments(t, tr) ==
    IF t.arguments # None THEN Ok(t, tr)
    ELSE arguments_memo(t, tr, arguments_loop(t.func))

RECURSIVE seed(_, _, _)
seed(ctx, args, i) ==
    IF i > Len(args) THEN ctx
    ELSE seed(scope_set(ctx, args[i].name, args[i].value), args, i + 1)

context_memo(t, tr, ctx) ==
    Ok([t EXCEPT !.context = Some(ctx)], Append(tr, Event("context", Some(ctx))))

context_build(a) ==
    IF a.exc # None THEN a
    ELSE context_memo(a.t, a.tr, seed(make_empty, Get(a.t.arguments), 1))

\* Theorem.context (cached_property)
context(t, tr) ==
    IF t.context # None THEN Ok(t, tr)
    ELSE context_build(arguments(t, tr))

contracts_memo(t, tr, r) ==
    IF r.exc # None THEN Raise(t, r.exc, tr)
    ELSE Ok([t EXCEPT !.contracts = Some(r.val)], tr)

contracts_build(c) ==
    IF c.exc # None THEN c
    ELSE contracts_memo(c.t, Append(c.tr, Event("contracts", c.t.context)),
                        eval_contracts(c.t.func.decorators, Get(c.t.context)))

\* Theorem.contracts (cached_property)
contracts(t, tr) ==
    IF t.contracts # None THEN Ok(t, tr)
    ELSE contracts_build(context(t, tr))

\* a constraint with the given formulas under the negation
Constraint_given_negated(pre, given, expected, post) ==
    [pos |-> pre, neg |-> given \o expected \o post]

\* z3.And(pre, *given, z3.Not(asserts)) with asserts = expected + post
Constraint(pre, given, expected, post) ==
    [pos |-> pre \o given, neg |-> expected \o post]

\* lines 96-105: the formula from the context and the contracts
constraint_assemble(k) ==
    IF k.exc # None THEN k
    ELSE Ok([k.t EXCEPT !.constraint =
               Some(Constraint(Get(k.t.contracts).pre,
                               Get(k.t.context).given,
                               Get(k.t.context).expected,
                               Get(k.t.contracts).post))],
            Append(k.tr, Event("constraint", None)))

\* after eval_stmt: the context object keeps what the walk did to it, and
\* self.contracts is read for the first time here (line 97)
constraint_walked(t, tr, w) ==
    IF w.exc # None THEN Raise([t EXCEPT !.context = Some(w.ctx)], w.exc, tr)
    ELSE constraint_assemble(contracts([t EXCEPT !.context = Some(w.ctx)], tr))

\* line 95: eval_stmt on self.context
constraint_build(c) ==
    IF c.exc # None THEN c
    ELSE constraint_walked(c.t, Append(c.tr, Event("eval_stmt", c.t.context)),
                           eval_stmt(c.t.func, Get(c.t.context)))

\* Theorem.constraint (cached_property)
constraint(t, tr) ==
    IF t.constraint # None THEN Ok(t, tr)
    ELSE constraint_build(context(t, tr))

solver_memo(k) ==
    IF k.exc # None THEN k
    ELSE Ok([k.t EXCEPT !.solver = Some([assertions |-> << Get(k.t.constraint) >>])],
            Append(k.tr, Event("solver", None)))

\* line 109 reads self.context, line 110 self.constraint
solver_build(c) ==
    IF c.exc # None THEN c
    ELSE solver_memo(constraint(c.t, c.tr))

\* Theorem.solver (cached_property)
solver(t, tr) ==
    IF t.solver # None THEN Ok(t, tr)
    ELSE solver_build(context(t, tr))

\* an assignment of the atoms that makes every assertion of the solver true
satisfies(s, v) ==
    \A i \in 1..Len(s.assertions) :
        conj(s.assertions[i].pos, v) /\ ~ conj(s.assertions[i].neg, v)

\* z3.Solver.check(): sat or unsat as the assertions are, or unknown when
\* the solver gives up
check(s, giveUp) ==
    IF giveUp THEN "unknown"
    ELSE IF \E v \in Assignments : satisfies(s, v) THEN "sat" ELSE "unsat"

\* a reset that clears the verdict but keeps the memoized values
reset_keeps_memo(t) ==
    [t EXCEPT !.conclusion = None, !.error = None, !.example = None]

\* a reset that forgets the memoized values but keeps the conclusion
reset_keeps_conclusion(t) ==
    [t EXCEPT !.arguments = None, !.context = None, !.contracts = None,
              !.constraint = None, !.solver = None]

\* a reset that clears everything but the recorded error and example
reset_keeps_error(t) ==
    [t EXCEPT !.conclusion = None,
              !.arguments = None, !.context = None, !.contracts = None,
              !.constraint = None, !.solver = None]

\* Theorem.reset
reset(t) ==
    [func |-> t.func,
     conclusion |-> None, error |-> None, example |-> None,
     arguments |-> None, context |-> None, contracts |-> None,
     constraint |-> None, solver |-> None]

\* the result of one prove() call: the theorem after it, the condition it
\* raised to the caller, the condition the memoized chain raised, the
\* solver's answer and the computations done
Run(t, raised, upstream, answer, tr) ==
    [t |-> t, raised |-> raised, upstream |-> upstream, answer |-> answer,
     tr |-> tr]

\* a guard that rejects a second prove() only after a proof
already_proved_only_ok(t) == t.conclusion = Some("OK")

\* the state guard of prove(): self.conclusion is not None
already_proved(t) == t.conclusion # None

\* an except clause that catches every condition
caught_any(exc) == TRUE

\* the except clause of prove(): except UnsupportedError
caught(exc) == exc.cls = "UnsupportedError"

\* a handler that takes the unsupported construct for absent
on_unsupported_ignored(t, exc) ==
    [t EXCEPT !.conclusion = Some("OK")]

\* the handler of the except clause
on_unsupported(t, exc) ==
    [t EXCEPT !.conclusion = Some("SKIP"), !.error = Some(exc)]

\* a verdict that takes every answer but sat for a proof
verdict_unknown_as_proof(t, result, m) ==
    CASE result = "sat" ->
            [t EXCEPT !.conclusion = Some("FAIL"), !.example = Some(m)]
      [] OTHER -> [t EXCEPT !.conclusion = Some("OK")]

\* the verdict prove() sets from the result of check()
verdict(t, result, m) ==
    CASE result = "unsat" -> [t EXCEPT !.conclusion = Some("OK")]
      [] result = "unknown" ->
            [t EXCEPT !.conclusion = Some("SKIP"),
                      !.error = Some(ProveError("cannot validate theorem"))]
      [] result = "sat" ->
            [t EXCEPT !.conclusion = Some("FAIL"), !.example = Some(m)]

\* lines 128-140: the chain gave a solver; check it and set the verdict
prove_checked(t, tr, result, m) ==
    Run(verdict(t, result, m), None, None, result, tr)

\* lines 121-126: the try around self.solver.check()
prove_try(s, giveUp, m) ==
    IF s.exc # None
    THEN IF caught(Get(s.exc))
         THEN Run(on_unsupported(s.t, Get(s.exc)), None, s.exc, "none", s.tr)
         ELSE Run(s.t, s.exc, s.exc, "none", s.tr)
    ELSE prove_checked(s.t, s.tr, check(Get(s.t.solver), giveUp), m)

\* Theorem.prove; giveUp and m are the solver's behaviour in this call
prove(t, giveUp, m) ==
    IF already_proved(t)
    THEN Run(t, Some(RuntimeError("already proved")), None, "none", << >>)
    ELSE prove_try(solver(t, << >>), giveUp, m)

\* ------------------------------------------------- function descriptions
\* annotations of the positional parameters: missing, mapped, unmapped
AnnSamples == {None, Some(NameNode("int")), Some(NameNode("Foo"))}

StmtSamples == {Stmt("Assign", "x"), Stmt("Assert", "x"), Stmt("If", "x"),
                Stmt("Return", "x"), Stmt("While", "")}

DecoratorSamples ==
    {<< >>,
     << Decorator("pre", "x"), Decorator("post", "result") >>,
     << Decorator("raises", ""), Decorator("pre", "x"), Decorator("post", "x") >>}

\* astroid keeps the parameters that can be passed positionally in
\* Arguments.args, with Arguments.annotations of the same length (None for
\* a missing annotation), and the keyword-only ones in Arguments.kwonlyargs
FunctionDef(n, anns, kwonly, body, decorators) ==
    [args |-> SubSeq(ParamNames, 1, n), annotations |-> anns,
     kwonlyargs |-> kwonly, body |-> body, decorators |-> decorators]

Funcs ==
    {FunctionDef(Len(anns), anns, kwonly, body, decorators) :
        anns \in UNION {[1..n -> AnnSamples] : n \in 0..MaxArgs},
        kwonly \in {<< >>, << [name |-> "k", annotation |-> None] >>},
        body \in UNION {[1..n -> StmtSamples] : n \in 0..MaxBody},
        decorators \in DecoratorSamples}

\* ---------------------------------------------------------- state machine
VARIABLES
    thm,       \* the Theorem instance
    lastOp,    \* the operation called last: "init", "prove" or "reset"
    prevOp,    \* the operation called before it
    raised,    \* the condition the last call raised to its caller, if any
    upstream,  \* the condition the memoized chain raised in the last prove()
    answer,    \* what check() answered in the last prove(), "none" if not reached
    trace,     \* the computations of the last prove(), in order
    before,    \* the Theorem as it was when the last call started
    lastRun,   \* summary of the last prove() that passed the state guard
    prevRun,   \* summary of the one before it
    calls      \* the number of calls made so far

thmVars == << thm, lastOp, prevOp, raised, upstream, answer, trace, before, lastRun, prevRun, calls >>

\* the solver call of a prove() in flight (Theorem.prove, line 122)
VARIABLES
    pcL,       \* "off", or where the prove() call is: "idle", "checking", "done"
    halts      \* whether z3 comes back from check() on this constraint

liveVars == << pcL, halts >>

LiveIdle == pcL = "off" /\ halts = FALSE

\* two Theorem instances side by side
VARIABLES
    thms,      \* the two instances, << >> when there are none
    ctxOf,     \* per instance: the identity of the Context object it holds
    solverOf,  \* per instance: the identity of the z3.Solver object it holds
    nextObj,   \* the identity the next constructed object gets
    twoOp,     \* the last call: on which instance, which method
    twoBefore, \* instances and held objects as they were when it started
    twoCalls   \* the number of calls made so far

twoVars == << thms, ctxOf, solverOf, nextObj, twoOp, twoBefore, twoCalls >>

TwoIdle ==
    /\ thms = << >>
    /\ ctxOf = << >>
    /\ solverOf = << >>
    /\ nextObj = 0
    /\ twoOp = [who |-> 0, op |-> "off"]
    /\ twoBefore = << >>
    /\ twoCalls = 0

ThmIdle ==
    /\ thm = << >>
    /\ lastOp = "off"
    /\ prevOp = "off"
    /\ raised = None
    /\ upstream = None
    /\ answer = "none"
    /\ trace = << >>
    /\ before = << >>
    /\ lastRun = None
    /\ prevRun = None
    /\ calls = 0

\* one call of ann2sort
VARIABLES
    annPc,     \* "off", or "given" before the call and "mapped" after it
    annNode,   \* the annotation node passed to ann2sort
    annSort    \* what ann2sort returned

annVars == << annPc, annNode, annSort >>

AnnIdle == annPc = "off" /\ annNode = << >> /\ annSort = None

\* one run of the generator get_contracts(func)
VARIABLES
    gcPc,      \* "off", or "loop" at the head of the while loop, "done" after return
    gcFunc,    \* the local variable func
    gcOut,     \* the wrappers yielded so far
    gcDecs,    \* the decorators the function was wrapped by, outermost first
    gcIters    \* the number of loop iterations made

introVars == << gcPc, gcFunc, gcOut, gcDecs, gcIters >>

IntroIdle ==
    /\ gcPc = "off"
    /\ gcFunc = << >>
    /\ gcOut = << >>
    /\ gcDecs = << >>
    /\ gcIters = 0

\* one call of a function wrapped by Contracts
VARIABLES
    debug,     \* state.debug
    self,      \* the Contracts object: kind of func and validator lists
    behaviour, \* what self.func does in this call
    run        \* the call of run_sync, run_async or run_iter in progress

runVars == << debug, self, behaviour, run >>

RunIdle ==
    /\ debug = TRUE
    /\ self = << >>
    /\ behaviour = << >>
    /\ run = << >>

\* contracts being attached to one function
VARIABLES
    fkind,     \* what the function is: "sync", "async" or "iter"; "off" if none
    fobjs,     \* the function objects: the original one, then the wrappers
    cobjs,     \* the Contracts objects constructed so far
    bound,     \* the function object the decorated name is bound to
    attached,  \* the attach calls made so far: category and validator
    returned   \* what each of them returned

attachVars == << fkind, fobjs, cobjs, bound, attached, returned >>

AttachIdle ==
    /\ fkind = "off"
    /\ fobjs = << >>
    /\ cobjs = << >>
    /\ bound = 0
    /\ attached = << >>
    /\ returned = << >>

\* calls of one wrapped function made from two threads
VARIABLES
    runs       \* per thread: the call in progress, << >> if there are no threads

threadVars == << runs >>

ThreadIdle == runs = << >>

\* the globals HasPatcher replaces, and two patchers
VARIABLES
    globals,   \* socket.socket, sys.stdout and sys.stderr
    patchers,  \* the HasPatcher objects, << >> if there are none
    history,   \* the patch() and unpatch() calls made, in order
    prevGlobals, \* the globals as they were before the last of them
    used       \* the last call of socket.socket or write on a stream

patchVars == << globals, patchers, history, prevGlobals, used >>

PatchIdle ==
    /\ globals = << >>
    /\ patchers = << >>
    /\ history = << >>
    /\ prevGlobals = << >>
    /\ used = << >>

laterVars == << attachVars, threadVars, patchVars >>

LaterIdle == AttachIdle /\ ThreadIdle /\ PatchIdle

\* the components a specification of the Theorem alone leaves untouched
others == << liveVars, twoVars, annVars, introVars, runVars, laterVars >>

OthersIdle == LiveIdle /\ TwoIdle /\ AnnIdle /\ IntroIdle /\ RunIdle /\ LaterIdle

vars == << thmVars, others >>

memoized(t) ==
    {n \in {"arguments", "context", "contracts", "constraint", "solver"} :
        t[n] # None}

Summary(r, fresh) ==
    [fresh |-> fresh, answer |-> r.answer, raised |-> r.raised,
     conclusion |-> r.t.conclusion,
     hasError |-> r.t.error # None, hasExample |-> r.t.example # None,
     computed |-> {r.tr[i].ev : i \in 1..Len(r.tr)} \ {"eval_stmt"},
     memoized |-> memoized(r.t)]

NoModel == [a \in Atoms |-> FALSE]

\* a Theorem as its constructor leaves it, no call made yet
Constructed ==
    /\ thm \in {Theorem(f) : f \in Funcs}
    /\ lastOp = "init"
    /\ prevOp = "init"
    /\ raised = None
    /\ upstream = None
    /\ answer = "none"
    /\ trace = << >>
    /\ before = thm
    /\ lastRun = None
    /\ prevRun = None
    /\ calls = 0

Init == Constructed /\ OthersIdle

\* the effect of a prove() call with result r
Proved(r, giveUp, m) ==
    /\ IF r.answer = "sat" THEN satisfies(Get(r.t.solver), m) ELSE m = NoModel
    /\ r.answer = "none" => ~ giveUp
    /\ thm' = r.t
    /\ lastOp' = "prove"
    /\ prevOp' = lastOp
    /\ raised' = r.raised
    /\ upstream' = r.upstream
    /\ answer' = r.answer
    /\ trace' = r.tr
    /\ before' = thm
    /\ IF r.raised = Some(RuntimeError("already proved"))
       THEN UNCHANGED << lastRun, prevRun >>
       ELSE /\ lastRun' = Some(Summary(r, lastOp = "reset"))
            /\ prevRun' = lastRun

\* a call of thm.prove(); the solver may give up, and on sat its model is
\* any assignment satisfying its assertions
Prove ==
    /\ calls < MaxCalls
    /\ calls' = calls + 1
    /\ \E giveUp \in BOOLEAN, m \in Assignments :
          Proved(prove(thm, giveUp, m), giveUp, m)
    /\ UNCHANGED others

\* a call of thm.reset()
Reset ==
    /\ calls < MaxCalls
    /\ calls' = calls + 1
    /\ thm' = reset(thm)
    /\ lastOp' = "reset"
    /\ prevOp' = lastOp
    /\ raised' = None
    /\ upstream' = None
    /\ answer' = "none"
    /\ trace' = << >>
    /\ before' = thm
    /\ UNCHANGED << lastRun, prevRun >>
    /\ UNCHANGED others

Next == Prove \/ Reset

Spec == Init /\ [][Next]_vars

\* ------------------------------------------------------------ properties
AlreadyProved == Some(RuntimeError("already proved"))

\* a prove() call that passed the state guard has just returned or raised
ProofRun == lastOp = "prove" /\ before.conclusion = None

\* C1: once prove() has set a conclusion, a further prove() without a
\* reset() in between raises RuntimeError and leaves conclusion, error and
\* example as they were.
C1_SecondProveRejected ==
    (lastOp = "prove" /\ before.conclusion # None) =>
        /\ raised = AlreadyProved
        /\ thm.conclusion = before.conclusion
        /\ thm.error = before.error
        /\ thm.example = before.example

C1_Witness ==
    /\ lastOp = "prove"
    /\ before.conclusion = Some("FAIL")
    /\ before.example # None
    /\ raised = AlreadyProved

\* C2: in a prove() that ran from Unproved and reached the solver, the
\* conclusion is OK exactly on unsat, FAIL exactly on sat, and SKIP with a
\* ProveError exactly on unknown; a prove() from Unproved that ends OK
\* had the answer unsat.
C2_VerdictFollowsAnswer ==
    ProofRun =>
        /\ answer # "none" =>
             /\ thm.conclusion = Some("OK") <=> answer = "unsat"
             /\ thm.conclusion = Some("FAIL") <=> answer = "sat"
             /\ (/\ thm.conclusion = Some("SKIP")
                 /\ thm.error = Some(ProveError("cannot validate theorem")))
                <=> answer = "unknown"
        /\ thm.conclusion = Some("OK") => answer = "unsat"

C2_Witness ==
    /\ ProofRun
    /\ answer = "unknown"
    /\ thm.conclusion = Some("SKIP")
    /\ thm.error = Some(ProveError("cannot validate theorem"))

\* every positional parameter has an annotation that maps to a sort
AllMapped(func) ==
    \A i \in 1..Len(func.args) :
        /\ func.annotations[i] # None
        /\ ann2sort(Get(func.annotations[i])) # None

\* C3: when the chain behind prove() raises UnsupportedError, prove()
\* returns with conclusion SKIP and that very condition as error; a
\* conclusion of OK or FAIL is only present for a function whose positional
\* parameters all map to sorts and whose body has no unsupported statement.
C3_UnsupportedIsSkipped ==
    /\ (ProofRun /\ upstream # None /\ Get(upstream).cls = "UnsupportedError") =>
          /\ raised = None
          /\ thm.conclusion = Some("SKIP")
          /\ thm.error = upstream
          /\ thm.example = None
    /\ thm.conclusion \in {Some("OK"), Some("FAIL")} =>
          /\ AllMapped(thm.func)
          /\ \A i \in 1..Len(thm.func.body) : thm.func.body[i].kind # "While"

C3_Witness ==
    /\ ProofRun
    /\ upstream = Some(UnsupportedError("unsupported statement"))
    /\ thm.conclusion = Some("SKIP")
    /\ thm.context # None
    /\ Len(Get(thm.context).expected) > 0

\* a declared parameter, positional or keyword-only, has no annotation or
\* one that maps to no sort
HasUnsupportedParam(func) ==
    \/ ~ AllMapped(func)
    \/ \E i \in 1..Len(func.kwonlyargs) :
          \/ func.kwonlyargs[i].annotation = None
          \/ ann2sort(Get(func.kwonlyargs[i].annotation)) = None

\* C4: for a function with a declared parameter that lacks an annotation
\* or whose annotation maps to no sort, prove() from Unproved ends with
\* conclusion SKIP and an UnsupportedError, whatever the body and the
\* contracts are.
C4_UnsupportedParamIsSkipped ==
    (ProofRun /\ HasUnsupportedParam(thm.func)) =>
        /\ thm.conclusion = Some("SKIP")
        /\ thm.error # None
        /\ Get(thm.error).cls = "UnsupportedError"

\* C5: after reset(), whatever the state before it, conclusion, error and
\* example are unset, no derived value is memoized, and the function
\* description is the one the Theorem had.
C5_ResetRestoresInitial ==
    lastOp = "reset" =>
        /\ thm.conclusion = None
        /\ thm.error = None
        /\ thm.example = None
        /\ memoized(thm) = {}
        /\ thm.func = before.func
        /\ thm = Theorem(before.func)

\* reset() after a run that failed in the body: only part of the chain was
\* memoized, and the context was already written to
C5_Witness ==
    /\ lastOp = "reset"
    /\ before.conclusion = Some("SKIP")
    /\ memoized(before) = {"arguments", "context"}
    /\ Len(Get(before.context).given) > 0
    /\ thm = Theorem(before.func)

\* C6: a prove() that directly follows a reset() is not rejected, every
\* derived value it leaves memoized was computed in that call, and when the
\* solver's answer is the one of the previous proof run, conclusion and the
\* presence of error and example are those of the previous run.
C6_ResetThenProveRepeats ==
    (lastOp = "prove" /\ prevOp = "reset") =>
        /\ raised # AlreadyProved
        /\ lastRun # None
        /\ Get(lastRun).fresh
        /\ Get(lastRun).memoized \subseteq Get(lastRun).computed
        /\ (prevRun # None /\ Get(prevRun).answer = Get(lastRun).answer) =>
              /\ Get(lastRun).conclusion = Get(prevRun).conclusion
              /\ Get(lastRun).hasError = Get(prevRun).hasError
              /\ Get(lastRun).hasExample = Get(prevRun).hasExample

C6_Witness ==
    /\ lastOp = "prove" /\ prevOp = "reset"
    /\ prevRun # None
    /\ Get(prevRun).answer = "sat"
    /\ Get(lastRun).answer = "sat"
    /\ Get(lastRun).conclusion = Some("FAIL")
    /\ Get(lastRun).memoized =
          {"arguments", "context", "contracts", "constraint", "solver"}

\* C7: in every state an example is present only with conclusion FAIL and
\* an error only with conclusion SKIP.
C7_ErrorAndExampleMatchConclusion ==
    /\ thm.example # None => thm.conclusion = Some("FAIL")
    /\ thm.error # None => thm.conclusion = Some("SKIP")

C7_Witness ==
    /\ thm.example # None
    /\ thm.conclusion = Some("FAIL")
    /\ thm.error = None
    /\ lastOp = "prove"

\* some assignment makes pre and every given true and one of the expected
\* formulas or post false
Refutable(ctx, goals) ==
    \E v \in Assignments :
        /\ conj(goals.pre, v)
        /\ conj(ctx.given, v)
        /\ ~ (conj(ctx.expected, v) /\ conj(goals.post, v))

Count(body, kind) == Cardinality({i \in 1..Len(body) : body[i].kind = kind})

\* the last prove() walked the body once, into a context without formulas
WalkedOnceFromEmpty ==
    /\ Cardinality({i \in 1..Len(trace) : trace[i].ev = "eval_stmt"}) = 1
    /\ \A i \in 1..Len(trace) :
          trace[i].ev = "eval_stmt" =>
              /\ Get(trace[i].ctx).given = << >>
              /\ Get(trace[i].ctx).expected = << >>

\* C8: the memoized constraint is pre and all of context.given on the
\* positive side and all of context.expected and post under the negation,
\* it is the only assertion of the solver, the solver answers sat exactly
\* when pre /\ given /\ ~(expected /\ post) has a satisfying assignment,
\* and after one walk given and expected hold one formula per branch
\* condition and per assertion of the body.
C8_ConstraintShape ==
    /\ thm.constraint # None =>
          /\ Get(thm.constraint).pos =
                Get(thm.contracts).pre \o Get(thm.context).given
          /\ Get(thm.constraint).neg =
                Get(thm.context).expected \o Get(thm.contracts).post
    /\ thm.solver # None =>
          Get(thm.solver).assertions = << Get(thm.constraint) >>
    /\ (lastOp = "prove" /\ answer \in {"sat", "unsat"}) =>
          (answer = "sat" <=> Refutable(Get(thm.context), Get(thm.contracts)))
    /\ (lastOp = "prove" /\ thm.constraint # None /\ WalkedOnceFromEmpty) =>
          /\ Len(Get(thm.context).given) = Count(thm.func.body, "If")
          /\ Len(Get(thm.context).expected) = Count(thm.func.body, "Assert")

C8_Witness ==
    /\ lastOp = "prove"
    /\ answer = "unsat"
    /\ thm.constraint # None
    /\ Len(Get(thm.context).given) > 0
    /\ Len(Get(thm.context).expected) > 0
    /\ Len(Get(thm.contracts).pre) > 0
    /\ Len(Get(thm.constraint).pos) = 2

\* C9: in a proof run the contracts are evaluated before the statement
\* evaluator walks the body, against the scope that holds the initial
\* argument symbols.
C9_ContractsBeforeBody ==
    \A i \in 1..Len(trace) :
        trace[i].ev = "contracts" =>
            /\ \A j \in 1..(i - 1) : trace[j].ev # "eval_stmt"
            /\ Get(trace[i].ctx).scope =
                  seed(make_empty, Get(thm.arguments), 1).scope

\* C10: when the chain behind prove() raises a condition other than
\* UnsupportedError, prove() raises it to the caller and conclusion, error
\* and example stay unset.
C10_OtherConditionPropagates ==
    (ProofRun /\ upstream # None /\ Get(upstream).cls # "UnsupportedError") =>
        /\ raised = upstream
        /\ thm.conclusion = None
        /\ thm.error = None
        /\ thm.example = None

C10_Witness ==
    /\ ProofRun
    /\ raised # None
    /\ Get(raised).cls = "NameNotFound"
    /\ thm.context # None
    /\ thm.conclusion = None


\* a context as Theorem.context leaves it: nothing given, nothing expected,
\* one symbolic constant per positional parameter and no other name bound
FreshFor(ctx, func) ==
    /\ ctx.given = << >>
    /\ ctx.expected = << >>
    /\ \A n \in Names :
          ctx.scope[n] =
              IF \E i \in 1..Len(func.args) : func.args[i] = n
              THEN ConstTerm(n) ELSE Unbound

\* C13: whenever the statement evaluator starts walking the body in a
\* prove(), the context it is given has empty given and expected sets and
\* a scope of exactly one symbolic constant per argument; no walk starts on
\* a context an earlier attempt has written to.
C13_WalkStartsFresh ==
    lastOp = "prove" =>
        \A i \in 1..Len(trace) :
            trace[i].ev = "eval_stmt" => FreshFor(Get(trace[i].ctx), thm.func)

\* ------------------------------------------ the solver call of prove()
\* Theorem.solver builds z3.Solver(ctx=...) and adds the constraint; it sets
\* no timeout and no resource limit, so check() comes back only when z3
\* itself halts on the constraint.  prove() is split here at the call of
\* check(): LiveCall runs lines 118-122 up to the call, LiveAnswer is the
\* return of check() and lines 123-142.

\* prove() up to the call of check(), where s is the outcome of the getter
\* chain behind self.solver
LiveCalled(s) ==
    /\ thm' = IF s.exc = None THEN s.t ELSE prove_try(s, FALSE, NoModel).t
    /\ pcL' = IF s.exc = None THEN "checking" ELSE "done"

LiveCall ==
    /\ pcL = "idle"
    /\ \E s \in {solver(thm, << >>)} : LiveCalled(s)
    /\ UNCHANGED << lastOp, prevOp, raised, upstream, answer, trace, before,
                    lastRun, prevRun, calls, halts, twoVars, annVars, introVars,
                    runVars, laterVars >>

\* check() returns: possible only when z3 halts; nothing in the program
\* interrupts a check() that does not
LiveAnswer ==
    /\ pcL = "checking"
    /\ halts
    /\ \E giveUp \in BOOLEAN, m \in Assignments :
          /\ answer' = check(Get(thm.solver), giveUp)
          /\ IF answer' = "sat" THEN satisfies(Get(thm.solver), m) ELSE m = NoModel
          /\ thm' = verdict(thm, answer', m)
    /\ pcL' = "done"
    /\ UNCHANGED << lastOp, prevOp, raised, upstream, trace, before,
                    lastRun, prevRun, calls, halts, twoVars, annVars, introVars,
                    runVars, laterVars >>

LiveInit ==
    /\ Constructed
    /\ pcL = "idle"
    /\ halts \in BOOLEAN
    /\ TwoIdle
    /\ AnnIdle
    /\ IntroIdle
    /\ RunIdle
    /\ LaterIdle

LiveNext == LiveCall \/ LiveAnswer

\* a check() on which z3 halts does return to prove()
SpecLive ==
    /\ LiveInit
    /\ [][LiveNext]_vars
    /\ WF_vars(LiveAnswer)

\* C11: every prove() call eventually ends: a prove() that has called the
\* solver's check() eventually returns (with conclusion SKIP when the
\* solver ran into its limit).
C11_ProveEnds == (pcL = "checking") ~> (pcL = "done")


\* ------------------------------------------------- two Theorem instances
\* Every attribute prove() and reset() write is an attribute of self: the
\* class holds only the None defaults of lines 42-44, cached properties
\* memoize in the instance, and reset() clears self.__dict__.  Context and
\* z3.Solver objects are constructed inside the cached properties.

\* functions that end proved, refuted or skipped, that are unsupported, and
\* that crash in the contract evaluator after the body was walked
TwoFuncs ==
    {FunctionDef(1, << Some(NameNode("int")) >>, << >>, << Stmt("Assert", "x") >>, << >>),
     FunctionDef(1, << Some(NameNode("Foo")) >>, << >>, << >>, << >>),
     FunctionDef(1, << Some(NameNode("int")) >>, << >>,
                 << Stmt("If", "x"), Stmt("Return", "x") >>,
                 << Decorator("pre", "x"), Decorator("post", "result") >>),
     FunctionDef(1, << Some(NameNode("int")) >>, << >>, << Stmt("Assert", "x") >>,
                 << Decorator("pre", "x"), Decorator("post", "result") >>)}

store_on_class(ts, i, t) ==
    [j \in DOMAIN ts |->
        IF j = i THEN t
        ELSE [ts[j] EXCEPT !.conclusion = t.conclusion, !.error = t.error,
                           !.example = t.example]]

\* the attribute writes of a call on instance i: all go to self
store(ts, i, t) ==
    [ts EXCEPT ![i] = t]

\* a constructor call gives an object no one else holds
new_object(n) == n

\* the object behind a cached property after a call: none when the
\* property is not memoized, a new one when the call computed it, else kept
held(old, was, now, fresh) ==
    IF now = None THEN None
    ELSE IF was = None THEN Some(new_object(fresh)) ELSE old

TwoCalled(i, op, t) ==
    /\ thms' = store(thms, i, t)
    /\ ctxOf' = [ctxOf EXCEPT ![i] = held(@, thms[i].context, t.context, nextObj)]
    /\ solverOf' = [solverOf EXCEPT ![i] = held(@, thms[i].solver, t.solver, nextObj + 1)]
    /\ nextObj' = nextObj + 2
    /\ twoOp' = [who |-> i, op |-> op]
    /\ twoBefore' = [thms |-> thms, ctxOf |-> ctxOf, solverOf |-> solverOf]
    /\ twoCalls' = twoCalls + 1
    /\ UNCHANGED << thmVars, liveVars, annVars, introVars, runVars, laterVars >>

\* thms[i].prove()
TwoProve ==
    /\ twoCalls < MaxTwoCalls
    /\ \E i \in 1..2, giveUp \in BOOLEAN, m \in Assignments :
          \E r \in {prove(thms[i], giveUp, m)} :
              /\ IF r.answer = "sat" THEN satisfies(Get(r.t.solver), m) ELSE m = NoModel
              /\ r.answer = "none" => ~ giveUp
              /\ TwoCalled(i, "prove", r.t)

\* thms[i].reset()
TwoReset ==
    /\ twoCalls < MaxTwoCalls
    /\ \E i \in 1..2 : TwoCalled(i, "reset", reset(thms[i]))

TwoInit ==
    /\ thms \in [1..2 -> {Theorem(f) : f \in TwoFuncs}]
    /\ ctxOf = [i \in 1..2 |-> None]
    /\ solverOf = [i \in 1..2 |-> None]
    /\ nextObj = 1
    /\ twoOp = [who |-> 0, op |-> "init"]
    /\ twoBefore = [thms |-> thms, ctxOf |-> ctxOf, solverOf |-> solverOf]
    /\ twoCalls = 0
    /\ ThmIdle
    /\ LiveIdle
    /\ AnnIdle
    /\ IntroIdle
    /\ RunIdle
    /\ LaterIdle

TwoNext == TwoProve \/ TwoReset

SpecTwo == TwoInit /\ [][TwoNext]_vars

\* the objects an instance holds
objects(i) ==
    {Get(o) : o \in {ctxOf[i], solverOf[i]} \ {None}}

LeafNodes ==
    {NameNode(n) : n \in {"bool", "int", "float", "str", "Foo", "list"}}
    \cup {ConstNode(v, TRUE) : v \in {"bool", "int", "float", "str", "Foo"}}
    \cup {ConstNode("int", FALSE), ConstNode("1", FALSE)}
    \cup {TupleNode(2)}

\* outer names of a parametrized annotation: what infer() finds for the
\* name and the name itself
OuterSamples ==
    {<< << "typing" >>, "List" >>, << << "builtins" >>, "list" >>,
     << << "typing" >>, "Set" >>, << << "builtins" >>, "set" >>,
     << << "typing" >>, "Dict" >>, << << "builtins" >>, "Foo" >>,
     << << >>, "List" >>, << << "mymod" >>, "List" >>,
     << << "typing", "builtins" >>, "List" >>}

\* annotation nodes with at most d parametrized annotations inside one
\* another; the slice is the node itself or an Index around it, depending
\* on the astroid version
RECURSIVE AnnNodes(_)
AnnNodes(d) ==
    IF d = 0 THEN LeafNodes
    ELSE AnnNodes(d - 1) \cup
         {SubscriptNode(o[1], o[2], sl) :
             o \in OuterSamples,
             sl \in AnnNodes(d - 1) \cup {IndexNode(a) : a \in AnnNodes(d - 1)}}

AnnInit ==
    /\ annPc = "given"
    /\ annNode \in AnnNodes(MaxNest)
    /\ annSort = None
    /\ ThmIdle
    /\ LiveIdle
    /\ TwoIdle
    /\ IntroIdle
    /\ RunIdle
    /\ LaterIdle

\* annSort = ann2sort(annNode)
Ann2Sort ==
    /\ annPc = "given"
    /\ annSort' = ann2sort(annNode)
    /\ annPc' = "mapped"
    /\ UNCHANGED << annNode, thmVars, liveVars, twoVars, introVars, runVars, laterVars >>

AnnNext == Ann2Sort

SpecAnn == AnnInit /\ [][AnnNext]_vars

\* C14: ann2sort maps the bare names bool, int, float, str to the boolean,
\* integer, float and string sorts, a string literal with one of these four
\* texts to the sort of the bare name, and every other bare name or string
\* literal to absent.
C14_SimpleSorts ==
    (annPc = "mapped" /\ (annNode.kind = "Name" \/ (annNode.kind = "Const" /\ annNode.str))) =>
        LET text == IF annNode.kind = "Name" THEN annNode.name ELSE annNode.value IN
        /\ text = "bool" => annSort = Some([s |-> "Bool"])
        /\ text = "int" => annSort = Some([s |-> "Int"])
        /\ text = "float" => annSort = Some([s |-> "Float"])
        /\ text = "str" => annSort = Some([s |-> "String"])
        /\ text \notin {"bool", "int", "float", "str"} => annSort = None

C14_Witness ==
    /\ annPc = "mapped"
    /\ annNode = ConstNode("float", TRUE)
    /\ annSort = Some([s |-> "Float"])

\* the single type argument of a parametrized annotation
TypeArgument(node) ==
    IF node.slice.kind = "Index" THEN node.slice.value ELSE node.slice

\* the outer name resolves to a single definition in typing or builtins
ResolvesToBuiltin(node) ==
    /\ Len(node.defs) = 1
    /\ node.defs[1] \in {"typing", "builtins"}

\* C15: for a parametrized annotation ann2sort yields sequence-of-X or
\* set-of-X exactly when the outer name resolves to a single definition in
\* typing or builtins, the name is a list or a set type, and the single type
\* argument maps to sort X; every other parametrized annotation, and every
\* node that is neither a name, a string literal nor parametrized, maps to
\* absent.
C15_GenericSorts ==
    annPc = "mapped" =>
        /\ annNode.kind = "Subscript" =>
              LET X == ann2sort(TypeArgument(annNode)) IN
              /\ (ResolvesToBuiltin(annNode) /\ annNode.tname \in {"List", "list"} /\ X # None)
                    => annSort = Some([s |-> "Seq", of |-> Get(X)])
              /\ (ResolvesToBuiltin(annNode) /\ annNode.tname \in {"Set", "set"} /\ X # None)
                    => annSort = Some([s |-> "Set", of |-> Get(X)])
              /\ ~ (/\ ResolvesToBuiltin(annNode)
                    /\ annNode.tname \in {"List", "list", "Set", "set"}
                    /\ X # None)
                    => annSort = None
        /\ (annNode.kind \notin {"Subscript", "Name", "Index"}
            /\ ~ (annNode.kind = "Const" /\ annNode.str)) => annSort = None

C15_Witness ==
    /\ annPc = "mapped"
    /\ annNode = SubscriptNode(<< "typing" >>, "List",
                    IndexNode(SubscriptNode(<< "builtins" >>, "set", NameNode("int"))))
    /\ annSort = Some([s |-> "Seq", of |-> [s |-> "Set", of |-> [s |-> "Int"]]])


\* -------------------------------------------- introspection: get_contracts
\* Base.__call__ returns one of the closures wrapped, async_wrapped or
\* wrapped_generator; each has the free variables function and self, so its
\* __closure__ holds the wrapped function and the decorator object, and
\* update_wrapper sets its __wrapped__ to the wrapped function.

\* subclasses of Base: the six contract types of WRAPPERS, and any other
DecoratorTypes == {"Ensure", "Has", "Post", "Pre", "Raises", "Reason", "Other"}

\* a decorator object; id tells two decorators of one type apart
BaseObject(type, id) == [base |-> TRUE, type |-> type, id |-> id]

\* an object that is no instance of Base
PlainObject == [base |-> FALSE, type |-> "function", id |-> 0]

\* a function object: its closure cells and its __wrapped__ attribute
Function(cells, wrapped) == [closure |-> cells, wrapped |-> wrapped]

\* Base.__call__: the closure returned for decorator dec around function
Base_call(dec, function) ==
    Function(<< PlainObject, dec >>, Some(function))

\* decs[i](decs[i+1](... (function)))
RECURSIVE decorate(_, _, _)
decorate(decs, i, function) ==
    IF i > Len(decs) THEN function
    ELSE Base_call(decs[i], decorate(decs, i + 1, function))

WRAPPERS_without_reason(type) ==
    IF type \in {"Ensure", "Has", "Post", "Pre", "Raises"}
    THEN Some(type) ELSE None

\* WRAPPERS.get(type(obj)): the wrapper class of the same name
WRAPPERS(type) ==
    IF type \in {"Ensure", "Has", "Post", "Pre", "Raises", "Reason"}
    THEN Some(type) ELSE None

\* lines 25-29: the cells that are not skipped
yielding(obj) == obj.base /\ WRAPPERS(obj.type) # None

\* line 30: wrapper(obj)
wrap(obj) == [wrapper |-> Get(WRAPPERS(obj.type)), contract |-> obj]

\* lines 21-30: what one iteration yields for the cells of func
yields(func) ==
    LET kept == SelectSeq(func.closure, yielding) IN
    [k \in 1..Len(kept) |-> wrap(kept[k])]

\* an iteration that ends at line 33
GetContractsStep ==
    /\ gcPc = "loop"
    /\ gcFunc.wrapped # None
    /\ gcOut' = gcOut \o yields(gcFunc)
    /\ gcFunc' = Get(gcFunc.wrapped)
    /\ gcIters' = gcIters + 1
    /\ UNCHANGED << gcPc, gcDecs, thmVars, liveVars, twoVars, annVars, runVars, laterVars >>

\* an iteration that ends at line 32
GetContractsReturn ==
    /\ gcPc = "loop"
    /\ gcFunc.wrapped = None
    /\ gcOut' = gcOut \o yields(gcFunc)
    /\ gcPc' = "done"
    /\ gcIters' = gcIters + 1
    /\ UNCHANGED << gcFunc, gcDecs, thmVars, liveVars, twoVars, annVars, runVars, laterVars >>

\* get_contracts(func) is called on a function under up to MaxDecorators
\* decorators; the function itself has no closure or one that holds
\* objects of its own
IntroInit ==
    /\ gcPc = "loop"
    /\ gcDecs \in UNION {[1..n -> DecoratorTypes] : n \in 0..MaxDecorators}
    /\ \E cells \in {<< >>, << PlainObject >>} :
          gcFunc = decorate([i \in 1..Len(gcDecs) |-> BaseObject(gcDecs[i], i)], 1,
                            Function(cells, None))
    /\ gcOut = << >>
    /\ gcIters = 0
    /\ ThmIdle
    /\ LiveIdle
    /\ TwoIdle
    /\ AnnIdle
    /\ RunIdle
    /\ LaterIdle

IntroNext == GetContractsStep \/ GetContractsReturn

SpecIntro == IntroInit /\ [][IntroNext]_vars

KnownContract(type) ==
    type \in {"Ensure", "Has", "Post", "Pre", "Raises", "Reason"}

\* the positions of the decorators of a known contract type, outermost first
KnownPositions ==
    SelectSeq([i \in 1..Len(gcDecs) |-> i], LAMBDA i : KnownContract(gcDecs[i]))

\* C16: for a function under a chain of n contract decorators
\* get_contracts yields exactly one wrapper per decorator of a known
\* contract type, from the outermost to the innermost, yields nothing for
\* any other closure object, and returns after n + 1 iterations, at the
\* function without __wrapped__.
C16_OneWrapperPerDecorator ==
    /\ gcPc = "loop" => gcIters <= Len(gcDecs)
    /\ gcPc = "done" =>
          /\ gcFunc.wrapped = None
          /\ gcIters = Len(gcDecs) + 1
          /\ Len(gcOut) = Len(KnownPositions)
          /\ \A k \in 1..Len(gcOut) :
                /\ gcOut[k].wrapper = gcDecs[KnownPositions[k]]
                /\ gcOut[k].contract.type = gcDecs[KnownPositions[k]]
                /\ gcOut[k].contract.id = KnownPositions[k]

C16_Witness ==
    /\ gcPc = "done"
    /\ gcDecs = << "Pre", "Other", "Reason" >>
    /\ Len(gcOut) = 2
    /\ gcOut[1].wrapper = "Pre"
    /\ gcOut[2].wrapper = "Reason"


\* ------------------------------------- _contract.py: a call under Contracts
\* The wrapper of ensure_wrapped hands the call to run_sync, run_async or
\* run_iter.  A validator either accepts or raises a ContractError; the
\* validators run with state.debug set to False.  A call is split where
\* state.debug is written and where a generator hands an item out.

Values == {1, 2}

ContractError(by) == [cls |-> "ContractError", by |-> by]

\* a condition raised by the wrapped function itself
FuncError(cls) == [cls |-> cls, by |-> "func"]

\* kind: which of run_sync, run_async, run_iter the wrapper calls; pres and
\* raises: per validator whether it accepts in this call; posts and
\* ensures: per validator the results it accepts
Contracts(kind, pres, posts, ensures, raises) ==
    [kind |-> kind, pres |-> pres, posts |-> posts, ensures |-> ensures,
     raises |-> raises]

\* what self.func does when called: the value it returns (one item) or the
\* items its generator produces, and then StopIteration or a condition
Behaviour(items, end) == [items |-> items, end |-> end]

\* an entry of the record of what a call did
Ev(ev, n) == [ev |-> ev, n |-> n]

\* the call as the wrapper starts it; enabled is state.debug at that time
NewRun(d) ==
    [pc |-> "enter", enabled |-> d, log |-> << >>, out |-> << >>,
     raised |-> None, pos |-> 1, result |-> 0]

Step(r, d) == [r |-> r, debug |-> d]

\* the first validator of a list that raises, 0 if all accept
first_rejecting(oks) ==
    IF \A i \in 1..Len(oks) : oks[i] THEN 0
    ELSE Min({i \in 1..Len(oks) : ~ oks[i]})

\* for validator in ...: validator.validate(...) -- in order, up to and
\* including the first one that raises
validated(cat, oks) ==
    [i \in 1..(IF first_rejecting(oks) = 0 THEN Len(oks) ELSE first_rejecting(oks))
        |-> Ev(cat, i)]

accepts(validators, result) ==
    [i \in 1..Len(validators) |-> result \in validators[i]]

\* lines 61-62 and 95-96: return self.func(*args, **kwargs)
direct(b, r) ==
    IF b.end = "stop"
    THEN [r EXCEPT !.pc = "done",
                   !.log = @ \o << Ev("func", 0), Ev("return", b.items[1]) >>,
                   !.out = << b.items[1] >>]
    ELSE [r EXCEPT !.pc = "done",
                   !.log = @ \o << Ev("func", 0) >>,
                   !.raised = Some(FuncError(b.end))]

\* lines 129-130: yield from self.func(*args, **kwargs); no return follows
\* it, so a generator that ends normally leaves the if block at line 133
yield_from(b, r) ==
    [r EXCEPT !.log = @ \o << Ev("func", 0) >>
                        \o [i \in 1..Len(b.items) |-> Ev("yield", b.items[i])],
              !.out = b.items,
              !.pc = IF b.end = "stop" THEN "pre" ELSE "done",
              !.raised = IF b.end = "stop" THEN None ELSE Some(FuncError(b.end))]

\* lines 61-65, 95-99, 129-133: the test of state.debug and what follows it
\* up to the first validator
enter(k, b, r, d) ==
    IF d THEN Step([r EXCEPT !.pc = "pre"], FALSE)
    ELSE IF k.kind = "iter" THEN Step(yield_from(b, r), FALSE)
    ELSE Step(direct(b, r), d)

pre_validation_unchecked(k, r) ==
    [r EXCEPT !.log = @ \o validated("pre", k.pres)
                        \o (IF k.kind = "iter" THEN << Ev("func", 0) >> ELSE << >>),
              !.pc = "func"]

\* lines 66-68, 100-102, 134-140: the pre validators; run_iter creates the
\* generator right after them
pre_validation(k, r) ==
    IF first_rejecting(k.pres) # 0
    THEN [r EXCEPT !.log = @ \o validated("pre", k.pres),
                   !.raised = Some(ContractError("pre")),
                   !.pc = "done"]
    ELSE [r EXCEPT !.log = @ \o validated("pre", k.pres)
                             \o (IF k.kind = "iter" THEN << Ev("func", 0) >> ELSE << >>),
                   !.pc = "func"]

\* lines 65-70: finally sets state.debug to True
pre(k, r) == Step(pre_validation(k, r), TRUE)

after_raise_always(k, e) == validated("raises", k.raises)

\* lines 75-79, 147-151: the validators an exception of the function is
\* passed to
after_raise(k, e) ==
    IF e.cls = "ContractError" THEN << >> ELSE validated("raises", k.raises)

\* lines 76, 80: the bare raise, unless a raises validator raised before it
reraised(k, e) ==
    IF e.cls = "ContractError" \/ first_rejecting(k.raises) = 0
    THEN e ELSE ContractError("raises")

func_raised(k, r, e) ==
    [r EXCEPT !.log = @ \o << Ev("exc", 0) >> \o after_raise(k, e),
              !.raised = Some(reraised(k, e)),
              !.pc = "done"]

func_result(r, v) ==
    [r EXCEPT !.log = @ \o << Ev("result", v) >>,
              !.result = v, !.pos = @ + 1, !.pc = "post"]

\* line 74, 108: the call of self.func; line 144 calls next() instead
called(r, kind) ==
    IF kind = "iter" THEN r ELSE [r EXCEPT !.log = @ \o << Ev("func", 0) >>]

\* lines 73-83, 107-117, 143-155: the function runs, or its generator is
\* resumed; with a result state.debug is set to False for the validators
func(k, b, r, d) ==
    IF r.pos <= Len(b.items)
    THEN Step(func_result(called(r, k.kind), b.items[r.pos]), FALSE)
    ELSE IF b.end = "stop" THEN Step([r EXCEPT !.pc = "done"], d)
    ELSE Step(func_raised(k, called(r, k.kind), FuncError(b.end)), d)

\* lines 85-88: posts, then ensures
post_events(k, v) ==
    validated("post", accepts(k.posts, v)) \o
    (IF first_rejecting(accepts(k.posts, v)) = 0
     THEN validated("ensure", accepts(k.ensures, v)) ELSE << >>)

post_error(k, v) ==
    IF first_rejecting(accepts(k.posts, v)) # 0 THEN Some(ContractError("post"))
    ELSE IF first_rejecting(accepts(k.ensures, v)) # 0 THEN Some(ContractError("ensure"))
    ELSE None

post_validation_unchecked(k, r) ==
    IF k.kind = "iter"
    THEN [r EXCEPT !.log = @ \o post_events(k, r.result) \o << Ev("yield", r.result) >>,
                   !.out = Append(@, r.result),
                   !.pc = "func"]
    ELSE [r EXCEPT !.log = @ \o post_events(k, r.result) \o << Ev("return", r.result) >>,
                   !.out = << r.result >>,
                   !.pc = "done"]

\* lines 84-92, 118-126, 156-163: the validators of the result, then the
\* result is returned or yielded
post_validation(k, r) ==
    IF post_error(k, r.result) # None
    THEN [r EXCEPT !.log = @ \o post_events(k, r.result),
                   !.raised = post_error(k, r.result),
                   !.pc = "done"]
    ELSE IF k.kind = "iter"
    THEN [r EXCEPT !.log = @ \o post_events(k, r.result) \o << Ev("yield", r.result) >>,
                   !.out = Append(@, r.result),
                   !.pc = "func"]
    ELSE [r EXCEPT !.log = @ \o post_events(k, r.result) \o << Ev("return", r.result) >>,
                   !.out = << r.result >>,
                   !.pc = "done"]

\* lines 83-90: finally sets state.debug to True
post(k, r) == Step(post_validation(k, r), TRUE)

\* the Contracts objects and function behaviours of the model
ValidatorLists(n) == UNION {[1..m -> BOOLEAN] : m \in 0..n}

ResultValidators(n) == UNION {[1..m -> {Values, {1}}] : m \in 0..n}

ContractsSamples ==
    {Contracts(kind, pres, posts, ensures, raises) :
        kind \in {"sync", "async", "iter"},
        pres \in ValidatorLists(MaxPres),
        posts \in ResultValidators(MaxPosts),
        ensures \in ResultValidators(MaxPosts),
        raises \in ValidatorLists(MaxRaises)}

Behaviours(kind) ==
    IF kind = "iter"
    THEN {Behaviour(items, end) :
            items \in UNION {[1..m -> Values] : m \in 0..MaxItems},
            end \in {"stop", "ContractError", "ValueError"}}
    ELSE {Behaviour(<< v >>, "stop") : v \in Values}
         \cup {Behaviour(<< >>, end) : end \in {"ContractError", "ValueError"}}

Ran(s) ==
    /\ run' = s.r
    /\ debug' = s.debug
    /\ UNCHANGED << self, behaviour, thmVars, liveVars, twoVars, annVars, introVars,
                    laterVars >>

RunEnter == run.pc = "enter" /\ Ran(enter(self, behaviour, run, debug))

RunPre == run.pc = "pre" /\ Ran(pre(self, run))

RunFunc == run.pc = "func" /\ Ran(func(self, behaviour, run, debug))

RunPost == run.pc = "post" /\ Ran(post(self, run))

RunInit ==
    /\ debug \in BOOLEAN
    /\ self \in ContractsSamples
    /\ behaviour \in Behaviours(self.kind)
    /\ run = NewRun(debug)
    /\ ThmIdle
    /\ LiveIdle
    /\ TwoIdle
    /\ AnnIdle
    /\ IntroIdle
    /\ LaterIdle

RunNext == RunEnter \/ RunPre \/ RunFunc \/ RunPost

SpecRun == RunInit /\ [][RunNext]_vars


\* ------------------------------------------------ properties of a call
\* where in the record of the call the entries of one sort are
Where(ev) == {i \in 1..Len(run.log) : run.log[i].ev = ev}

\* the validators of one category ran in attachment order, none twice
InOrder(ev) ==
    \A i \in Where(ev) : run.log[i].n = Cardinality({j \in Where(ev) : j <= i})

AllAccept(validators, v) ==
    \A i \in 1..Len(validators) : v \in validators[i]

Phase(ev) ==
    CASE ev = "pre" -> 1
      [] ev = "func" -> 2
      [] ev \in {"result", "exc"} -> 3
      [] ev \in {"post", "raises"} -> 4
      [] ev = "ensure" -> 5
      [] ev \in {"return", "yield"} -> 6

\* C17: with contracts enabled a finished call of a wrapped synchronous or
\* asynchronous function has run every pre validator in attachment order,
\* then the function exactly once, then every post validator, then every
\* ensure validator, and then returned the result; when a pre validator
\* fails the function was not called, and when a post or ensure validator
\* fails no result was returned.
C17_PhasesInOrder ==
    (run.pc = "done" /\ run.enabled /\ self.kind \in {"sync", "async"}) =>
        /\ \A i, j \in 1..Len(run.log) :
              i < j => Phase(run.log[i].ev) <= Phase(run.log[j].ev)
        /\ InOrder("pre") /\ InOrder("post") /\ InOrder("ensure")
        /\ IF \A i \in 1..Len(self.pres) : self.pres[i]
           THEN /\ Cardinality(Where("pre")) = Len(self.pres)
                /\ Cardinality(Where("func")) = 1
           ELSE /\ Where("func") = {}
                /\ run.raised = Some(ContractError("pre"))
                /\ run.out = << >>
        /\ Where("result") # {} =>
              IF AllAccept(self.posts, behaviour.items[1])
                 /\ AllAccept(self.ensures, behaviour.items[1])
              THEN /\ Cardinality(Where("post")) = Len(self.posts)
                   /\ Cardinality(Where("ensure")) = Len(self.ensures)
                   /\ run.log[Len(run.log)] = Ev("return", behaviour.items[1])
                   /\ run.out = << behaviour.items[1] >>
                   /\ run.raised = None
              ELSE /\ Where("return") = {}
                   /\ run.out = << >>
                   /\ run.raised # None
                   /\ Get(run.raised).cls = "ContractError"

C17_Witness ==
    /\ run.pc = "done" /\ run.enabled /\ self.kind = "async"
    /\ Len(self.pres) = 2 /\ Len(self.posts) = 1 /\ Len(self.ensures) = 1
    /\ run.log = << Ev("pre", 1), Ev("pre", 2), Ev("func", 0), Ev("result", 1),
                    Ev("post", 1), Ev("ensure", 1), Ev("return", 1) >>

\* C18: with contracts disabled a call of a wrapped function, synchronous,
\* asynchronous or generator, invokes the function exactly once, runs no
\* validator, and delivers exactly what the function delivers.
C18_DisabledIsTransparent ==
    ~ run.enabled =>
        /\ Where("pre") \cup Where("post") \cup Where("ensure") \cup Where("raises") = {}
        /\ Cardinality(Where("func")) <= 1
        /\ run.pc = "done" =>
              /\ Cardinality(Where("func")) = 1
              /\ run.out = behaviour.items
              /\ run.raised = IF behaviour.end = "stop" THEN None
                              ELSE Some(FuncError(behaviour.end))

\* C19: with contracts enabled, when the wrapped function raises: a
\* ContractError reaches the caller as it is and no raises validator runs;
\* any other exception is passed to the raises validators in order and,
\* when all accept it, is raised again as it is; in both cases no post or
\* ensure validator runs after it and nothing is returned or yielded after
\* it.
C19_RaisesOfTheFunction ==
    (run.pc = "done" /\ run.enabled /\ Where("exc") # {}) =>
        /\ Cardinality(Where("exc")) = 1
        /\ \A i \in Where("exc"), j \in 1..Len(run.log) :
              j > i => /\ run.log[j].ev = "raises"
                       /\ run.log[j].n = j - i
        /\ IF behaviour.end = "ContractError"
           THEN /\ Where("raises") = {}
                /\ run.raised = Some([cls |-> "ContractError", by |-> "func"])
           ELSE (\A i \in 1..Len(self.raises) : self.raises[i]) =>
                    /\ Cardinality(Where("raises")) = Len(self.raises)
                    /\ run.raised = Some([cls |-> behaviour.end, by |-> "func"])
        /\ self.kind # "iter" => run.out = << >>

C19_Witness ==
    /\ run.pc = "done" /\ run.enabled
    /\ behaviour.end = "ValueError"
    /\ self.raises = << TRUE, TRUE >>
    /\ Cardinality(Where("raises")) = 2
    /\ run.raised = Some(FuncError("ValueError"))

\* the entries of the record between the production of the item yielded at
\* entry i and that yield
CheckedBefore(i) ==
    /\ i > Len(self.posts) + Len(self.ensures) + 1
    /\ run.log[i - Len(self.posts) - Len(self.ensures) - 1] = Ev("result", run.log[i].n)
    /\ \A k \in 1..Len(self.posts) :
          run.log[i - Len(self.posts) - Len(self.ensures) - 1 + k] = Ev("post", k)
    /\ \A k \in 1..Len(self.ensures) :
          run.log[i - Len(self.ensures) - 1 + k] = Ev("ensure", k)

\* C20: with contracts enabled a wrapped generator runs the pre validators
\* once, before the first item is produced; every item it yields was
\* produced by the underlying generator and then checked by all post and
\* all ensure validators; no yielded item fails a validator; the items come
\* in the underlying order; and the generator ends without a condition
\* exactly when the underlying one is exhausted.
C20_GeneratorItemsChecked ==
    (run.enabled /\ self.kind = "iter") =>
        /\ InOrder("pre")
        /\ \A i \in Where("pre"), j \in Where("func") \cup Where("result") : i < j
        /\ Where("result") # {} => Cardinality(Where("pre")) = Len(self.pres)
        /\ Cardinality(Where("func")) <= 1
        /\ \A i \in Where("yield") : CheckedBefore(i)
        /\ Len(run.out) <= Len(behaviour.items)
        /\ \A i \in 1..Len(run.out) :
              /\ run.out[i] = behaviour.items[i]
              /\ AllAccept(self.posts, run.out[i])
              /\ AllAccept(self.ensures, run.out[i])
        /\ Cardinality(Where("yield")) = Len(run.out)
        /\ (run.pc = "done" /\ run.raised = None) =>
              /\ behaviour.end = "stop"
              /\ run.out = behaviour.items

C20_Witness ==
    /\ run.enabled /\ self.kind = "iter" /\ run.pc = "done"
    /\ run.raised = None
    /\ Len(self.pres) = 2 /\ Len(self.posts) = 1 /\ Len(self.ensures) = 1
    /\ run.out = << 1, 2 >>


\* C21: a call of a wrapped function leaves state.debug as it found it: when
\* the call has ended, by a return, a failed validator, an exception of the
\* function or the end of the generator, state.debug has the value it had
\* when the call started; during an enabled call it is False only while
\* the pre validators or the post and ensure validators run.
C21_DebugRestored ==
    /\ run.pc = "done" => debug = run.enabled
    /\ run.enabled => (~ debug <=> run.pc \in {"pre", "post"})


\* ------------------------------- _contract.py: attach and ensure_wrapped
\* Function objects are fobjs[1], the original function, and the wrappers
\* ensure_wrapped makes.  attr is the attribute __deal_contract (the
\* Contracts object, by its place in cobjs), wrapped is __wrapped__.

FunctionObject(attr, wrapped) == [attr |-> attr, wrapped |-> wrapped]

\* Contracts.__init__, and line 57 for wrapped
ContractsObject(f, w) ==
    [func |-> f, wrapped |-> w, pres |-> << >>, posts |-> << >>,
     ensures |-> << >>, examples |-> << >>, raises |-> << >>]

\* a validator; one of pres with ok false raises, every other accepts
Validator(id, ok) == [id |-> id, ok |-> ok]

Heap(fs, cs, c) == [fobjs |-> fs, cobjs |-> cs, contracts |-> c]

\* lines 39-58: the Contracts object of func, made with its wrapper when
\* func has no attribute __deal_contract
ensure_wrapped(fs, cs, f) ==
    IF fs[f].attr # None THEN Heap(fs, cs, Get(fs[f].attr))
    ELSE Heap(Append(fs, FunctionObject(Some(Len(cs) + 1), Some(f))),
              Append(cs, ContractsObject(f, Len(fs) + 1)),
              Len(cs) + 1)

\* lines 34-36 on the heap h that ensure_wrapped left
attach_append(h, contract_type, validator) ==
    [fobjs |-> h.fobjs,
     cobjs |-> [h.cobjs EXCEPT ![h.contracts][contract_type] = Append(@, validator)],
     ret |-> h.cobjs[h.contracts].wrapped]

\* Contracts.attach
attach(fs, cs, contract_type, validator, f) ==
    attach_append(ensure_wrapped(fs, cs, f), contract_type, validator)

Attached(a, contract_type, validator) ==
    /\ fobjs' = a.fobjs
    /\ cobjs' = a.cobjs
    /\ bound' = a.ret
    /\ returned' = Append(returned, a.ret)
    /\ attached' = Append(attached, [type |-> contract_type, validator |-> validator])

\* a decorator is applied to the function the name is bound to:
\* bound = Contracts.attach(contract_type, validator, bound)
Attach ==
    /\ run.pc = "wait"
    /\ Len(attached) < MaxAttach
    /\ \E contract_type \in {"pres", "posts", "ensures", "raises"},
          ok \in BOOLEAN :
          /\ contract_type # "pres" => ok
          /\ \E a \in {attach(fobjs, cobjs, contract_type,
                              Validator(Len(attached) + 1, ok), bound)} :
                Attached(a, contract_type, Validator(Len(attached) + 1, ok))
    /\ UNCHANGED << fkind, thmVars, liveVars, twoVars, annVars, introVars, runVars,
                    threadVars, patchVars >>

\* the Contracts object as the call sees it
Seen(c, kind) ==
    Contracts(kind,
              [i \in 1..Len(c.pres) |-> c.pres[i].ok],
              [i \in 1..Len(c.posts) |-> Values],
              [i \in 1..Len(c.ensures) |-> Values],
              [i \in 1..Len(c.raises) |-> TRUE])

\* lines 46-53: the wrapper the name is bound to is called
CallWrapper ==
    /\ run.pc = "wait"
    /\ fobjs[bound].attr # None
    /\ self' = Seen(cobjs[Get(fobjs[bound].attr)], fkind)
    /\ behaviour' \in Behaviours(fkind)
    /\ run' = NewRun(debug)
    /\ UNCHANGED << debug, attachVars, thmVars, liveVars, twoVars, annVars, introVars,
                    threadVars, patchVars >>

AttachInit ==
    /\ fkind \in {"sync", "async", "iter"}
    /\ fobjs = << FunctionObject(None, None) >>
    /\ cobjs = << >>
    /\ bound = 1
    /\ attached = << >>
    /\ returned = << >>
    /\ debug \in BOOLEAN
    /\ self = << >>
    /\ behaviour = << >>
    /\ run = [NewRun(debug) EXCEPT !.pc = "wait"]
    /\ ThmIdle
    /\ LiveIdle
    /\ TwoIdle
    /\ AnnIdle
    /\ IntroIdle
    /\ ThreadIdle
    /\ PatchIdle

AttachNext == Attach \/ CallWrapper \/ RunEnter \/ RunPre \/ RunFunc \/ RunPost

SpecAttach == AttachInit /\ [][AttachNext]_vars

\* the validators attached to one category, in attachment order
AttachedTo(contract_type) ==
    LET kept == SelectSeq(attached, LAMBDA a : a.type = contract_type) IN
    [i \in 1..Len(kept) |-> kept[i].validator]

\* one Contracts object and one wrapper, reused and returned by each attach,
\* with every validator in its category list in attachment order
OneContractsObject ==
    attached # << >> =>
        /\ Len(cobjs) = 1
        /\ Len(fobjs) = 2
        /\ \A i \in 1..Len(returned) : returned[i] = 2
        /\ bound = 2
        /\ fobjs[2].attr = Some(1)
        /\ cobjs[1].wrapped = 2 /\ cobjs[1].func = 1
        /\ \A t \in {"pres", "posts", "ensures", "raises"} :
              cobjs[1][t] = AttachedTo(t)

\* C22: attaching any number of contracts in any order of categories makes
\* one Contracts object and one wrapper, which every attach on the wrapped
\* function reuses and returns; every validator is kept in its category
\* list in attachment order; and one call of the wrapper calls the
\* original function at most once.
C22_OneWrapperOneCall ==
    /\ OneContractsObject
    /\ Cardinality(Where("func")) <= 1


\* -------------------------------------- calls from two threads
\* state is one object of the module deal._state, shared by all threads;
\* the interpreter can switch threads between any two byte codes, so also
\* while a validator runs.  Each thread makes one call of the same wrapped
\* function; the steps of a call are those of SpecRun.

Threads == {1, 2}

\* the wrapped functions called from the threads: synchronous and
\* asynchronous ones with pre and post validators
ThreadSamples ==
    {c \in ContractsSamples :
        c.kind \in {"sync", "async"} /\ c.ensures = << >> /\ c.raises = << >>}

ThreadRan(t, s) ==
    /\ runs' = [runs EXCEPT ![t] = s.r]
    /\ debug' = s.debug
    /\ UNCHANGED << self, behaviour, run, thmVars, liveVars, twoVars, annVars,
                    introVars, attachVars, patchVars >>

\* the wrapper is called in thread t
ThreadCall ==
    \E t \in Threads :
        /\ runs[t].pc = "wait"
        /\ ThreadRan(t, Step(NewRun(debug), debug))

ThreadEnter ==
    \E t \in Threads :
        /\ runs[t].pc = "enter"
        /\ ThreadRan(t, enter(self, behaviour, runs[t], debug))

ThreadPre ==
    \E t \in Threads :
        /\ runs[t].pc = "pre"
        /\ ThreadRan(t, pre(self, runs[t]))

ThreadFunc ==
    \E t \in Threads :
        /\ runs[t].pc = "func"
        /\ ThreadRan(t, func(self, behaviour, runs[t], debug))

ThreadPost ==
    \E t \in Threads :
        /\ runs[t].pc = "post"
        /\ ThreadRan(t, post(self, runs[t]))

\* contracts are enabled and no call has started
ThreadInit ==
    /\ debug = TRUE
    /\ self \in ThreadSamples
    /\ behaviour \in Behaviours(self.kind)
    /\ run = << >>
    /\ runs = [t \in Threads |-> [NewRun(TRUE) EXCEPT !.pc = "wait"]]
    /\ ThmIdle
    /\ LiveIdle
    /\ TwoIdle
    /\ AnnIdle
    /\ IntroIdle
    /\ AttachIdle
    /\ PatchIdle

ThreadNext == ThreadCall \/ ThreadEnter \/ ThreadPre \/ ThreadFunc \/ ThreadPost

SpecThreads == ThreadInit /\ [][ThreadNext]_vars

\* C23: with contracts enabled at the start and no caller disabling them,
\* in every interleaving of two threads' calls a call that has reached the
\* function body has run every pre validator before it.
C23_PreBeforeBody ==
    \A t \in Threads :
        \A i \in 1..Len(runs[t].log) :
            runs[t].log[i].ev = "func" =>
                \A k \in 1..Len(self.pres) :
                    \E j \in 1..(i - 1) : runs[t].log[j] = Ev("pre", k)

\* ---------------------------------------------------------------------------
\* HasPatcher: the globals a contract with markers replaces while the
\* function runs (deal/_runtime/_has_patcher.py)
\* ---------------------------------------------------------------------------

\* an exception class, or an instance of it carrying a message
ExceptionClass(cls) == [cls |-> cls, instance |-> FALSE, msg |-> ""]

ExceptionInstance(cls, msg) == [cls |-> cls, instance |-> TRUE, msg |-> msg]

MarkerError == ExceptionClass("MarkerError")

OfflineContractError == ExceptionClass("OfflineContractError")

SilentContractError == ExceptionClass("SilentContractError")

\* calling an exception class with a message
instantiate(exception, message) == ExceptionInstance(exception.cls, message)

\* an object a global can hold; the true objects raise nothing
TrueObject(name) == [kind |-> name, exception |-> None, by |-> 0]

\* PatchedSocket(exception), constructed by patcher p
PatchedSocket(exception, p) ==
    [kind |-> "PatchedSocket", exception |-> Some(exception), by |-> p]

\* PatchedStringIO(exception), constructed by patcher p for the stream
PatchedStringIO(exception, p) ==
    [kind |-> "PatchedStringIO", exception |-> Some(exception), by |-> p]

\* HasPatcher.__init__; the true_* slots are unset until patch()
HasPatcher(markers, message, exception) ==
    LET given == IF exception = None THEN MarkerError ELSE Get(exception)
    IN  [markers |-> markers,
         message |-> message,
         exception |-> IF message # None /\ ~ given.instance
                       THEN instantiate(given, Get(message))
                       ELSE given,
         true_socket |-> None,
         true_stdout |-> None,
         true_stderr |-> None,
         state |-> "new"]

exception_type(patcher) == ExceptionClass(patcher.exception.cls)

has_network(patcher) ==
    \/ "io" \in patcher.markers
    \/ "network" \in patcher.markers
    \/ "socket" \in patcher.markers

has_stdout_without_print(patcher) ==
    \/ "io" \in patcher.markers
    \/ "stdout" \in patcher.markers

has_stdout(patcher) ==
    \/ "io" \in patcher.markers
    \/ "print" \in patcher.markers
    \/ "stdout" \in patcher.markers

has_stderr(patcher) ==
    \/ "io" \in patcher.markers
    \/ "stderr" \in patcher.markers

get_exception(patcher, default) ==
    IF exception_type(patcher) = MarkerError
    THEN IF patcher.message = None
         THEN default
         ELSE instantiate(default, Get(patcher.message))
    ELSE patcher.exception

\* patch() of patcher p: the patcher and the globals afterwards
patch(patcher, p, g) ==
    [patcher |->
        [patcher EXCEPT
            !.true_socket = IF has_network(patcher) THEN @ ELSE Some(g.socket),
            !.true_stdout = IF has_stdout(patcher) THEN @ ELSE Some(g.stdout),
            !.true_stderr = IF has_stderr(patcher) THEN @ ELSE Some(g.stderr),
            !.state = "patched"],
     globals |->
        [socket |-> IF has_network(patcher)
                    THEN g.socket
                    ELSE PatchedSocket(get_exception(patcher, OfflineContractError), p),
         stdout |-> IF has_stdout(patcher)
                    THEN g.stdout
                    ELSE PatchedStringIO(get_exception(patcher, SilentContractError), p),
         stderr |-> IF has_stderr(patcher)
                    THEN g.stderr
                    ELSE PatchedStringIO(get_exception(patcher, SilentContractError), p)]]

unpatch_without_stderr(patcher, g) ==
    [socket |-> IF has_network(patcher) THEN g.socket ELSE Get(patcher.true_socket),
     stdout |-> IF has_stdout(patcher) THEN g.stdout ELSE Get(patcher.true_stdout),
     stderr |-> g.stderr]

\* unpatch(): the globals afterwards
unpatch(patcher, g) ==
    [socket |-> IF has_network(patcher) THEN g.socket ELSE Get(patcher.true_socket),
     stdout |-> IF has_stdout(patcher) THEN g.stdout ELSE Get(patcher.true_stdout),
     stderr |-> IF has_stderr(patcher) THEN g.stderr ELSE Get(patcher.true_stderr)]

\* PatchedSocket.__call__ and PatchedStringIO.write raise the exception they
\* were given; the true socket and streams raise nothing
call_or_write(object) == object.exception

Patchers == {1, 2}

Markers == {"io", "network", "socket", "print", "stdout", "stderr", "import"}

MarkerSets == {m \in SUBSET Markers : Cardinality(m) <= MaxMarkers}

\* the message and exception arguments of the first patcher
ExceptionArguments ==
    {[message |-> None, exception |-> None],
     [message |-> Some("msg"), exception |-> None],
     [message |-> None, exception |-> Some(ExceptionClass("ValueError"))],
     [message |-> Some("msg"), exception |-> Some(ExceptionClass("ValueError"))],
     [message |-> None, exception |-> Some(ExceptionInstance("ValueError", "given"))]}

TrueGlobals ==
    [socket |-> TrueObject("socket"),
     stdout |-> TrueObject("stdout"),
     stderr |-> TrueObject("stderr")]

Call(op, p) == [op |-> op, p |-> p]

Patch ==
    \E p \in Patchers :
        /\ patchers # << >>
        /\ patchers[p].state = "new"
        /\ \E r \in {patch(patchers[p], p, globals)} :
            /\ patchers' = [patchers EXCEPT ![p] = r.patcher]
            /\ globals' = r.globals
        /\ prevGlobals' = globals
        /\ history' = Append(history, Call("patch", p))
        /\ used' = << >>
        /\ UNCHANGED << thmVars, liveVars, twoVars, annVars, introVars, runVars,
                        attachVars, threadVars >>

Unpatch ==
    \E p \in Patchers :
        /\ patchers # << >>
        /\ patchers[p].state = "patched"
        /\ globals' = unpatch(patchers[p], globals)
        /\ patchers' = [patchers EXCEPT ![p].state = "done"]
        /\ prevGlobals' = globals
        /\ history' = Append(history, Call("unpatch", p))
        /\ used' = << >>
        /\ UNCHANGED << thmVars, liveVars, twoVars, annVars, introVars, runVars,
                        attachVars, threadVars >>

\* the program calls socket.socket(...) or writes on sys.stdout or sys.stderr
Use ==
    \E name \in {"socket", "stdout", "stderr"} :
        /\ patchers # << >>
        /\ used = << >>
        /\ used' = [name |-> name,
                    object |-> globals[name],
                    raised |-> call_or_write(globals[name])]
        /\ UNCHANGED << globals, patchers, history, prevGlobals, thmVars, liveVars,
                        twoVars, annVars, introVars, runVars, attachVars, threadVars >>

PatchInit ==
    /\ globals = TrueGlobals
    /\ prevGlobals = TrueGlobals
    /\ history = << >>
    /\ used = << >>
    /\ \E m1 \in MarkerSets, m2 \in MarkerSets, a \in ExceptionArguments,
          msg \in {None, Some("msg")} :
        patchers = [p \in Patchers |->
                        IF p = 1
                        THEN HasPatcher(m1, a.message, a.exception)
                        ELSE HasPatcher(m2, msg, None)]
    /\ ThmIdle
    /\ LiveIdle
    /\ TwoIdle
    /\ AnnIdle
    /\ IntroIdle
    /\ RunIdle
    /\ AttachIdle
    /\ ThreadIdle

PatchNext == Patch \/ Unpatch \/ Use

SpecPatch == PatchInit /\ [][PatchNext]_vars

\* the calls made so far are whole patch/unpatch pairs, properly nested or one
\* after the other
ProperlyNested ==
    \E p \in Patchers, q \in Patchers :
        /\ p # q
        /\ history \in {<< Call("patch", p), Call("unpatch", p) >>,
                        << Call("patch", p), Call("patch", q),
                           Call("unpatch", q), Call("unpatch", p) >>,
                        << Call("patch", p), Call("unpatch", p),
                           Call("patch", q), Call("unpatch", q) >>}

\* C24: after patch() followed by unpatch() of the same patcher, and after
\* properly nested pairs of two patchers, socket.socket, sys.stdout and
\* sys.stderr are the objects they were before, for every marker set.
C24_RoundTrip ==
    (patchers # << >> /\ ProperlyNested) => globals = TrueGlobals

\* two patchers that both replaced all three globals were patched and
\* unpatched in nested order
C24_Witness ==
    /\ patchers # << >>
    /\ history = << Call("patch", 1), Call("patch", 2),
                    Call("unpatch", 2), Call("unpatch", 1) >>
    /\ \A p \in Patchers :
        ~ has_network(patchers[p]) /\ ~ has_stdout(patchers[p]) /\ ~ has_stderr(patchers[p])
    /\ globals = TrueGlobals

Last(seq) == seq[Len(seq)]

\* the markers that allow the use of each global
Allowing(name) ==
    CASE name = "socket" -> {"io", "network", "socket"}
      [] name = "stdout" -> {"io", "print", "stdout"}
      [] name = "stderr" -> {"io", "stderr"}

\* the last call was patch() of a patcher whose markers do not allow the global:
\* the global holds a new object made by that patcher
Replaced(name) ==
    /\ globals[name] # prevGlobals[name]
    /\ globals[name].by = Last(history).p
    /\ globals[name].kind = IF name = "socket" THEN "PatchedSocket" ELSE "PatchedStringIO"

\* the exception a patcher's replaced objects are to raise: the one it was
\* given, or else the error of the missing marker, with the message if any
PatchersException(patcher, name) ==
    LET default == IF name = "socket" THEN OfflineContractError ELSE SilentContractError
    IN  IF patcher.exception.cls # "MarkerError"
        THEN patcher.exception
        ELSE IF patcher.message = None
             THEN default
             ELSE ExceptionInstance(default.cls, Get(patcher.message))

\* C25: patch() replaces socket.socket unless the markers contain io, network
\* or socket, sys.stdout unless they contain io, print or stdout, sys.stderr
\* unless they contain io or stderr, and leaves the other globals untouched;
\* with the io marker patch() and unpatch() change nothing; a call of a
\* replaced socket or a write on a replaced stream raises the exception of the
\* patcher that replaced it.
C25_ReplacesWhatIsNotAllowed ==
    patchers # << >> =>
        /\ (history # << >> /\ Last(history).op = "patch") =>
            \A name \in {"socket", "stdout", "stderr"} :
                IF patchers[Last(history).p].markers \cap Allowing(name) = {}
                THEN Replaced(name)
                ELSE globals[name] = prevGlobals[name]
        /\ (history # << >> /\ "io" \in patchers[Last(history).p].markers) =>
            globals = prevGlobals
        /\ used # << >> =>
            IF used.object.by \in Patchers
            THEN used.raised = Some(PatchersException(patchers[used.object.by], used.name))
            ELSE used.raised = None

\* a patcher with the network marker and a message has replaced the streams
\* only, and a write on sys.stdout raised its SilentContractError
C25_Witness ==
    /\ patchers # << >>
    /\ history = << Call("patch", 1) >>
    /\ patchers[1].markers = {"network"}
    /\ globals.socket = TrueObject("socket")
    /\ globals.stderr.kind = "PatchedStringIO"
    /\ used # << >>
    /\ used.name = "stdout"
    /\ used.raised = Some(ExceptionInstance("SilentContractError", "msg"))

\* every patch() made has been followed by the unpatch() of the same patcher
AllUnpatched ==
    /\ \E p \in Patchers : patchers[p].state = "done"
    /\ \A p \in Patchers : patchers[p].state # "patched"

\* C26: once every patch() of the two patchers has been followed by its own
\* unpatch(), socket.socket, sys.stdout and sys.stderr hold their original
\* objects again, whatever the interleaving of the two pairs.
C26_RestoredAfterAnyInterleaving ==
    (patchers # << >> /\ AllUnpatched) => globals = TrueGlobals

====
